---- MODULE Spec2Model ----
(***************************************************************************)
(* Model of app1.py: the OllamaPDFSummarizer class and the Streamlit       *)
(* script main().  One behaviour is a sequence of script runs (one run of  *)
(* main() per user interaction) sharing st.session_state.  Every HTTP      *)
(* exchange with the backend and every user input is chosen by the         *)
(* environment from a small set.                                           *)
(***************************************************************************)
EXTENDS Integers, Sequences, FiniteSets, TLC

\* ---------------------------------------------------------------- bounds
\* number of script runs in one session
MaxInvocations == 2
\* how many characters beyond max_chars the longest document text has
MaxOver == 4

\* ------------------------------------------------------ program constants
\* summarize_text: max_chars = 8000
max_chars == 8000

\* ------------------------------------------------------------ Python values
\* Optional[str]: None, or a str held as a sequence of characters
None == [isNone |-> TRUE, val |-> <<>>]
Some(s) == [isNone |-> FALSE, val |-> s]
\* Python truth value of an Optional[str]: None and "" are false
Truthy(o) == (~o.isNone) /\ Len(o.val) > 0

\* the suffix appended on truncation: "..."
Marker == <<".", ".", ".">>
\* the fallback of result.get('response', ...): 'No summary generated.'
NoSummaryGenerated ==
    <<"N","o"," ","s","u","m","m","a","r","y"," ",
      "g","e","n","e","r","a","t","e","d",".">>

IsSpace(c) == c = " "
\* len(s.split()): the number of maximal runs of non-whitespace characters
WordCount(s) ==
    Cardinality({i \in 1..Len(s) :
                    (~IsSpace(s[i])) /\ (i = 1 \/ IsSpace(s[i-1]))})

\* ---------------------------------------------------------- reported messages
Msg(m, c, f) == [msg |-> m, code |-> c, fault |-> f]
CannotConnect == Msg("Cannot connect to Ollama!", 0, "")
NoModels == Msg("No models available!", 0, "")
ExtractFailed(f) == Msg("Error extracting text from PDF", 0, f)
BackendStatus(c) == Msg("Error from Ollama", c, "")
TimedOut ==
    Msg("Request timed out. Please try again with a shorter document.", 0, "")
CommFailed(f) == Msg("Error communicating with Ollama", 0, f)
Truncated == Msg("Text truncated to characters for processing.", max_chars, "")

\* ------------------------------------------------------- environment inputs
\* document texts: n characters, a space at every p-th position, "a" elsewhere
TextOf(n, p) == [i \in 1..n |-> IF i % p = 0 THEN " " ELSE "a"]
TextLens == {0, 3, max_chars, max_chars + 1, max_chars + MaxOver}
Texts == {TextOf(n, 2) : n \in TextLens}
            \cup {TextOf(n, max_chars + 1) : n \in {max_chars + MaxOver}}

\* an uploaded file: the texts of its pages and whether the parser faults
Doc(ps, f) == [pages |-> ps, fault |-> f]
Docs == {Doc(<<t>>, "") : t \in Texts}
          \cup {Doc(<<TextOf(max_chars - 1, 2), TextOf(2, 2)>>, ""),
                Doc(<<TextOf(3, 2)>>, "PdfReadError")}
NoFile == Doc(<<>>, "no file")

\* an HTTP exchange: a response with a status and a body, or a transport fault
Http(s, b) == [kind |-> "http", status |-> s, body |-> b, desc |-> ""]
Fault(k, d) == [kind |-> k, status |-> 0, body |-> [json |-> "none"], desc |-> d]
TransportFaults == {Fault("timeout", "Read timed out"),
                    Fault("fault", "Connection refused")}

\* bodies of GET /api/tags
ModelEntry(hasName, n) == [hasName |-> hasName, name |-> n]
TagsObject(hasModels, ms) == [json |-> "object", hasModels |-> hasModels, models |-> ms]
TagsBodies ==
    {TagsObject(TRUE, ms) : ms \in {<<>>,
                                    <<ModelEntry(TRUE, "m1")>>,
                                    <<ModelEntry(TRUE, "m2"), ModelEntry(TRUE, "m1")>>,
                                    <<ModelEntry(TRUE, "m1"), ModelEntry(FALSE, "")>>}}
      \cup {TagsObject(FALSE, <<>>)}
      \cup {[json |-> "invalid"], [json |-> "array"]}
TagsResponses ==
    {Http(200, b) : b \in TagsBodies} \cup {Http(500, [json |-> "none"])}
      \cup TransportFaults

\* bodies of POST /api/generate
GenObject(has, r) == [json |-> "object", has_response |-> has, response |-> r]
Summaries == {<<>>, <<"a", " ", "b">>}
GenBodies ==
    {GenObject(TRUE, Some(s)) : s \in Summaries}
      \cup {GenObject(FALSE, None)}
      \cup {[json |-> "invalid"], [json |-> "array"]}
GenResponses ==
    {Http(200, b) : b \in GenBodies} \cup {Http(500, [json |-> "none"])}
      \cup TransportFaults

\* -------------------------------------------------------------------- state
VARIABLES
    jsonFaultIsRequestException, \* requests >= 2.27: JSONDecodeError is a RequestException
    pc,              \* position of the current script run in main()
    inv,             \* number of the current script run
    connected,       \* result of check_ollama_connection: "unset", "yes", "no"
    tags,            \* get_available_models's response
    models,          \* main's models
    selected_model,  \* main's selected_model
    uploaded_file,   \* main's uploaded_file
    text,            \* main's text
    payload,         \* summarize_text's payload
    response,        \* summarize_text's response
    summary,         \* main's summary
    raised,          \* the exception that escaped the script run, or "none"
    errors,          \* st.error messages of the current script run
    warnings,        \* st.warning messages of the current script run
    extracts,        \* calls of extract_text_from_pdf in the current script run
    posts,           \* POSTs to /api/generate in the current script run
    session,         \* st.session_state
    writer,          \* for each key of st.session_state, the run that wrote it
    stats            \* the statistics shown by the current script run

vars == <<jsonFaultIsRequestException, pc, inv, connected, tags, models, selected_model,
          uploaded_file, text, payload, response, summary, raised, errors,
          warnings, extracts, posts, session, writer, stats>>

locals == <<connected, tags, models, selected_model, uploaded_file, text, payload,
            response, summary, raised, errors, warnings, extracts, posts, stats>>

NoPayload == [model |-> "", prompt |-> [head |-> "", text |-> <<>>, tail |-> ""],
              stream |-> FALSE, options |-> [temperature |-> "", top_p |-> ""]]
NoResponse == Fault("none", "")
NoStats == [shown |-> FALSE, original_words |-> 0, summary_words |-> 0,
            compression |-> FALSE]
Empty == [k \in {} |-> <<>>]
\* an exception that left the function `at` uncaught
Raised(e, at) == [exc |-> e, at |-> at]
NotRaised == Raised("none", "")

\* ---------------------------------------------------------------- the class
\* check_ollama_connection: True only on HTTP 200, False on any transport fault
check_ollama_connection(r) == r.kind = "http" /\ r.status = 200

Ret(v) == [raised |-> "none", val |-> v]
Raise(e) == [raised |-> e, val |-> <<>>]

RECURSIVE Names(_)
\* [model['name'] for model in ms], up to the first entry without a name
Names(ms) ==
    IF ms = <<>> THEN Ret(<<>>)
    ELSE IF ~Head(ms).hasName THEN Raise("KeyError")
    ELSE LET rest == Names(Tail(ms))
         IN IF rest.raised # "none" THEN rest
            ELSE Ret(<<Head(ms).name>> \o rest.val)

\* get_available_models on the exchange r
get_available_models(r) ==
    IF r.kind # "http" THEN Ret(<<>>)
    ELSE IF r.status # 200 THEN Ret(<<>>)
    ELSE IF r.body.json = "invalid"
         THEN IF jsonFaultIsRequestException THEN Ret(<<>>)
              ELSE Raise("JSONDecodeError")
    ELSE IF r.body.json = "array" THEN Raise("AttributeError")
    ELSE IF ~r.body.hasModels THEN Ret(<<>>)
    ELSE Names(r.body.models)

RECURSIVE Concat(_)
Concat(ps) == IF ps = <<>> THEN <<>> ELSE Head(ps) \o Concat(Tail(ps))

\* extract_text_from_pdf: the pages' texts in page order, or None on a fault
extract_text_from_pdf(d) ==
    IF d.fault # "" THEN [val |-> None, err |-> {ExtractFailed(d.fault)}]
    ELSE [val |-> Some(Concat(d.pages)), err |-> {}]

\* a length limit that cuts a text of exactly max_chars characters as well
truncate_from_limit(t) ==
    IF Len(t) >= max_chars THEN SubSeq(t, 1, max_chars) \o Marker ELSE t

\* no length limit at all
truncate_nothing(t) == t

\* summarize_text, lines 48-51: the local text after the length limit
truncate(t) ==
    IF Len(t) > max_chars THEN SubSeq(t, 1, max_chars) \o Marker ELSE t

\* summarize_text, line 51: the warning
truncation_warning(t) ==
    IF Len(t) > max_chars THEN {Truncated} ELSE {}

\* summarize_text, lines 53-68: prompt and payload
build_payload(t, m) ==
    [model |-> m,
     prompt |-> [head |-> "Please provide a comprehensive summary of the following text. Focus on the main points, key arguments, and important conclusions:",
                 text |-> t,
                 tail |-> "Summary:"],
     stream |-> FALSE,
     options |-> [temperature |-> "0.3", top_p |-> "0.9"]]

Result(v, e, x) == [val |-> v, err |-> e, raised |-> x]

\* the except clauses in the other order: a timeout is handled as any other
\* RequestException
summarize_text_result_generic(r) ==
    IF r.kind # "http" THEN Result(None, {CommFailed(r.desc)}, "none")
    ELSE IF r.status # 200 THEN Result(None, {BackendStatus(r.status)}, "none")
    ELSE IF r.body.json = "invalid"
         THEN IF jsonFaultIsRequestException
              THEN Result(None, {CommFailed("JSONDecodeError")}, "none")
              ELSE Result(None, {}, "JSONDecodeError")
    ELSE IF r.body.json = "array" THEN Result(None, {}, "AttributeError")
    ELSE IF r.body.has_response THEN Result(r.body.response, {}, "none")
    ELSE Result(Some(NoSummaryGenerated), {}, "none")

\* summarize_text, lines 77-89: what the call returns, reports and raises
summarize_text_result(r) ==
    IF r.kind = "timeout" THEN Result(None, {TimedOut}, "none")
    ELSE IF r.kind # "http" THEN Result(None, {CommFailed(r.desc)}, "none")
    ELSE IF r.status # 200 THEN Result(None, {BackendStatus(r.status)}, "none")
    ELSE IF r.body.json = "invalid"
         THEN IF jsonFaultIsRequestException
              THEN Result(None, {CommFailed("JSONDecodeError")}, "none")
              ELSE Result(None, {}, "JSONDecodeError")
    ELSE IF r.body.json = "array" THEN Result(None, {}, "AttributeError")
    ELSE IF r.body.has_response THEN Result(r.body.response, {}, "none")
    ELSE Result(Some(NoSummaryGenerated), {}, "none")

\* --------------------------------------------------------------------- main
Init ==
    /\ jsonFaultIsRequestException \in BOOLEAN
    /\ pc = "Idle"
    /\ inv = 0
    /\ connected = "unset"
    /\ tags = NoResponse
    /\ models = <<>>
    /\ selected_model = ""
    /\ uploaded_file = NoFile
    /\ text = None
    /\ payload = NoPayload
    /\ response = NoResponse
    /\ summary = None
    /\ raised = NotRaised
    /\ errors = {}
    /\ warnings = {}
    /\ extracts = 0
    /\ posts = 0
    /\ session = Empty
    /\ writer = Empty
    /\ stats = NoStats

\* a script run starts: lines 91-111
Start ==
    /\ pc \in {"Idle", "End"}
    /\ inv < MaxInvocations
    /\ inv' = inv + 1
    /\ pc' = "Probing"
    /\ connected' = "unset"
    /\ tags' = NoResponse
    /\ models' = <<>>
    /\ selected_model' = ""
    /\ uploaded_file' = NoFile
    /\ text' = None
    /\ payload' = NoPayload
    /\ response' = NoResponse
    /\ summary' = None
    /\ raised' = NotRaised
    /\ errors' = {}
    /\ warnings' = {}
    /\ extracts' = 0
    /\ posts' = 0
    /\ stats' = NoStats
    /\ UNCHANGED <<jsonFaultIsRequestException, session, writer>>

\* lines 113, 124-132
Probe ==
    /\ pc = "Probing"
    /\ \E r \in TagsResponses :
         IF check_ollama_connection(r)
         THEN /\ connected' = "yes"
              /\ pc' = "Listing"
              /\ UNCHANGED errors
         ELSE /\ connected' = "no"
              /\ errors' = errors \cup {CannotConnect}
              /\ pc' = "End"
    /\ UNCHANGED <<jsonFaultIsRequestException, inv, tags, models, selected_model,
                   uploaded_file, text, payload, response, summary, raised,
                   warnings, extracts, posts, session, writer, stats>>

\* lines 117-123
List ==
    /\ pc = "Listing"
    /\ \E r \in TagsResponses :
         LET got == get_available_models(r) IN
         /\ tags' = r
         /\ IF got.raised # "none"
            THEN /\ raised' = Raised(got.raised, "get_available_models")
                 /\ pc' = "End"
                 /\ UNCHANGED <<models, selected_model, errors>>
            ELSE IF got.val # <<>>
            THEN /\ models' = got.val
                 /\ \E i \in 1..Len(got.val) : selected_model' = got.val[i]
                 /\ pc' = "Upload"
                 /\ UNCHANGED <<raised, errors>>
            ELSE /\ models' = got.val
                 /\ errors' = errors \cup {NoModels}
                 /\ pc' = "End"
                 /\ UNCHANGED <<raised, selected_model>>
    /\ UNCHANGED <<jsonFaultIsRequestException, inv, connected, uploaded_file,
                   text, payload, response, summary, warnings, extracts, posts,
                   session, writer, stats>>

\* lines 139-146
Upload ==
    /\ pc = "Upload"
    /\ \E f \in Docs \cup {NoFile} :
         /\ uploaded_file' = f
         /\ pc' = IF f = NoFile THEN "Display" ELSE "Extracting"
    /\ UNCHANGED <<jsonFaultIsRequestException, inv, connected, tags, models,
                   selected_model, text, payload, response, summary, raised,
                   errors, warnings, extracts, posts, session, writer, stats>>

\* main without the test of line 152: the button is offered whatever was extracted
ExtractThenButton ==
    /\ pc = "Extracting"
    /\ LET got == extract_text_from_pdf(uploaded_file) IN
         /\ text' = got.val
         /\ errors' = errors \cup got.err
         /\ pc' = "Button"
    /\ extracts' = extracts + 1
    /\ UNCHANGED <<jsonFaultIsRequestException, inv, connected, tags, models,
                   selected_model, uploaded_file, payload, response, summary,
                   raised, warnings, posts, session, writer, stats>>

\* lines 148-157
Extract ==
    /\ pc = "Extracting"
    /\ LET got == extract_text_from_pdf(uploaded_file) IN
         /\ text' = got.val
         /\ errors' = errors \cup got.err
         /\ pc' = IF Truthy(got.val) THEN "Button" ELSE "Display"
    /\ extracts' = extracts + 1
    /\ UNCHANGED <<jsonFaultIsRequestException, inv, connected, tags, models,
                   selected_model, uploaded_file, payload, response, summary,
                   raised, warnings, posts, session, writer, stats>>

\* line 160
Button ==
    /\ pc = "Button"
    /\ \E clicked \in BOOLEAN : pc' = IF clicked THEN "Prompting" ELSE "Display"
    /\ UNCHANGED <<jsonFaultIsRequestException, inv, locals, session, writer>>

\* a summarize_text whose truncation writes through to the caller's text
PromptInPlace ==
    /\ pc = "Prompting"
    /\ payload' = build_payload(truncate(text.val), selected_model)
    /\ text' = Some(truncate(text.val))
    /\ warnings' = warnings \cup truncation_warning(text.val)
    /\ pc' = "Posting"
    /\ UNCHANGED <<jsonFaultIsRequestException, inv, connected, tags, models,
                   selected_model, uploaded_file, response, summary,
                   raised, errors, extracts, posts, session, writer, stats>>

\* summarize_text, lines 47-68
Prompt ==
    /\ pc = "Prompting"
    /\ payload' = build_payload(truncate(text.val), selected_model)
    /\ warnings' = warnings \cup truncation_warning(text.val)
    /\ pc' = "Posting"
    /\ UNCHANGED <<jsonFaultIsRequestException, inv, connected, tags, models,
                   selected_model, uploaded_file, text, response, summary,
                   raised, errors, extracts, posts, session, writer, stats>>

\* summarize_text, lines 70-75
Post ==
    /\ pc = "Posting"
    /\ \E r \in GenResponses : response' = r
    /\ posts' = posts + 1
    /\ pc' = "Classifying"
    /\ UNCHANGED <<jsonFaultIsRequestException, inv, connected, tags, models,
                   selected_model, uploaded_file, text, payload, summary,
                   raised, errors, warnings, extracts, session, writer, stats>>

\* a summarize_text that sends the request again after a timeout
ClassifyRetry ==
    /\ pc = "Classifying"
    /\ LET got == summarize_text_result(response) IN
         /\ summary' = got.val
         /\ errors' = errors \cup got.err
         /\ raised' = IF got.raised # "none"
                      THEN Raised(got.raised, "summarize_text") ELSE NotRaised
         /\ pc' = IF response.kind = "timeout" THEN "Posting"
                  ELSE IF got.raised # "none" THEN "End" ELSE "Storing"
    /\ UNCHANGED <<jsonFaultIsRequestException, inv, connected, tags, models,
                   selected_model, uploaded_file, text, payload, response,
                   warnings, extracts, posts, session, writer, stats>>

\* summarize_text, lines 77-89, and the assignment of line 161
Classify ==
    /\ pc = "Classifying"
    /\ LET got == summarize_text_result(response) IN
         /\ summary' = got.val
         /\ errors' = errors \cup got.err
         /\ raised' = IF got.raised # "none"
                      THEN Raised(got.raised, "summarize_text") ELSE NotRaised
         /\ pc' = IF got.raised # "none" THEN "End" ELSE "Storing"
    /\ UNCHANGED <<jsonFaultIsRequestException, inv, connected, tags, models,
                   selected_model, uploaded_file, text, payload, response,
                   warnings, extracts, posts, session, writer, stats>>

\* main testing `summary is not None` in line 163
StoreNotNone ==
    /\ pc = "Storing"
    /\ IF ~summary.isNone
       THEN /\ session' = [k \in DOMAIN session \cup {"summary", "original_text"} |->
                             IF k = "summary" THEN summary.val
                             ELSE IF k = "original_text" THEN text.val
                             ELSE session[k]]
            /\ writer' = [k \in DOMAIN writer \cup {"summary", "original_text"} |->
                             IF k \in {"summary", "original_text"} THEN inv
                             ELSE writer[k]]
       ELSE UNCHANGED <<session, writer>>
    /\ pc' = "Display"
    /\ UNCHANGED <<jsonFaultIsRequestException, inv, locals>>

\* lines 163-165
Store ==
    /\ pc = "Storing"
    /\ IF Truthy(summary)
       THEN /\ session' = [k \in DOMAIN session \cup {"summary", "original_text"} |->
                             IF k = "summary" THEN summary.val
                             ELSE IF k = "original_text" THEN text.val
                             ELSE session[k]]
            /\ writer' = [k \in DOMAIN writer \cup {"summary", "original_text"} |->
                             IF k \in {"summary", "original_text"} THEN inv
                             ELSE writer[k]]
       ELSE UNCHANGED <<session, writer>>
    /\ pc' = "Display"
    /\ UNCHANGED <<jsonFaultIsRequestException, inv, locals>>

\* lines 167-206
Display ==
    /\ pc = "Display"
    /\ IF "summary" \in DOMAIN session
       THEN IF "original_text" \in DOMAIN session
            THEN /\ stats' = [shown |-> TRUE,
                              original_words |-> WordCount(session["original_text"]),
                              summary_words |-> WordCount(session["summary"]),
                              compression |-> WordCount(session["original_text"]) > 0]
                 /\ UNCHANGED raised
            ELSE /\ raised' = Raised("KeyError", "main")
                 /\ UNCHANGED stats
       ELSE UNCHANGED <<stats, raised>>
    /\ pc' = "End"
    /\ UNCHANGED <<jsonFaultIsRequestException, inv, connected, tags, models,
                   selected_model, uploaded_file, text, payload, response,
                   summary, errors, warnings, extracts, posts, session, writer>>

Next ==
    \/ Start
    \/ Probe
    \/ List
    \/ Upload
    \/ Extract
    \/ Button
    \/ Prompt
    \/ Post
    \/ Classify
    \/ Store
    \/ Display

Spec == Init /\ [][Next]_vars

\* ------------------------------------------------------------- properties
\* get_available_models has returned or raised in the current script run
Listed == connected = "yes" /\ pc # "Listing"
\* summarize_text has built its payload in the current script run
Prompted == pc \in {"Posting", "Classifying"} \/ posts > 0
\* summarize_text has returned or raised in the current script run
Classified == posts > 0 /\ pc # "Classifying"
\* the current script run has stored a summary
StoredNow == "summary" \in DOMAIN writer /\ writer["summary"] = inv
\* the current script run has reported a failure
Failed == errors # {} \/ raised # NotRaised
Ok200(r) == r.kind = "http" /\ r.status = 200
\* the text the parser yields for the uploaded file
Extracted == Concat(uploaded_file.pages)

\* C1: within one script run no later stage runs after an earlier one failed:
\* a failed probe ends the run before any extraction or generate request, an
\* empty model list likewise, and a failed extraction (None) is followed by no
\* generate request; the run reports the failure of the failing stage only.
C1_NoStageAfterFailure ==
    /\ connected = "no" =>
          /\ pc = "End" /\ extracts = 0 /\ posts = 0
          /\ errors = {CannotConnect}
    /\ (Listed /\ raised = NotRaised /\ models = <<>>) =>
          /\ pc = "End" /\ extracts = 0 /\ posts = 0
          /\ errors = {NoModels}
    /\ (extracts > 0 /\ text.isNone) =>
          /\ pc \in {"Display", "End"} /\ posts = 0
          /\ errors = {ExtractFailed(uploaded_file.fault)}
          /\ summary = None /\ ~StoredNow

\* a second script run whose extraction failed has ended, with an earlier
\* summary still in the session
C1_Witness ==
    /\ pc = "End" /\ inv = 2 /\ extracts = 1 /\ text.isNone
    /\ "summary" \in DOMAIN session

\* C2: summarize_text returns the response field on HTTP 200 with the field,
\* the literal fallback on HTTP 200 without it, and None with the matching
\* message on a non-200 status (carrying the code), a timeout, or any other
\* transport fault (carrying its description); no failure returns a summary.
C2_OutcomeClassification ==
    Classified =>
      /\ (Ok200(response) /\ response.body.json = "object"
             /\ response.body.has_response) =>
            /\ summary = response.body.response
            /\ ~Failed
      /\ (Ok200(response) /\ response.body.json = "object"
             /\ ~response.body.has_response) =>
            /\ summary.val = <<"N","o"," ","s","u","m","m","a","r","y"," ",
                               "g","e","n","e","r","a","t","e","d",".">>
            /\ ~summary.isNone
            /\ ~Failed
      /\ (response.kind = "http" /\ response.status # 200) =>
            /\ summary = None
            /\ errors = {Msg("Error from Ollama", response.status, "")}
      /\ response.kind = "timeout" =>
            /\ summary = None
            /\ errors = {Msg("Request timed out. Please try again with a shorter document.", 0, "")}
      /\ response.kind = "fault" =>
            /\ summary = None
            /\ errors = {Msg("Error communicating with Ollama", 0, response.desc)}
      /\ Failed => summary = None

\* a generate request has timed out and summarize_text has returned
C2_Witness ==
    Classified /\ response.kind = "timeout" /\ summary = None /\ errors = {TimedOut}

\* C3: the text in the prompt is the caller's text with no warning when it has
\* at most 8000 characters, and its first 8000 characters followed by "..."
\* with the warning when it has more; the warning is raised iff it has more.
C3_PromptText ==
    Prompted =>
      LET T == text.val
          P == payload.prompt.text
      IN /\ Len(T) <= max_chars => P = T /\ warnings = {}
         /\ Len(T) > max_chars =>
               /\ Len(P) = max_chars + 3
               /\ \A i \in 1..max_chars : P[i] = T[i]
               /\ \A j \in 1..3 : P[max_chars + j] = "."
               /\ warnings = {Truncated}
         /\ (warnings # {}) <=> (Len(T) > max_chars)

\* a text of 8001 characters has been put in a prompt
C3_Witness ==
    Prompted /\ Len(text.val) = max_chars + 1 /\ warnings = {Truncated}

\* C4: HTTP 200 with a body that is not the expected object makes
\* summarize_text fail with the backend error, not the network error, and no
\* exception leaves it.
C4_MalformedBodyIsBackendError ==
    (Classified /\ Ok200(response) /\ response.body.json # "object") =>
      /\ raised = NotRaised
      /\ summary = None
      /\ errors # {}
      /\ \A e \in errors : e.msg = "Error from Ollama"

\* C5: get_available_models never raises; it returns the name fields in order
\* for HTTP 200 with a well-formed body and the empty list otherwise.
C5_ListNeverRaises ==
    Listed =>
      LET wellFormed == /\ Ok200(tags) /\ tags.body.json = "object"
                        /\ tags.body.hasModels
                        /\ \A i \in 1..Len(tags.body.models) :
                              tags.body.models[i].hasName
      IN /\ raised.at # "get_available_models"
         /\ wellFormed =>
               models = [i \in 1..Len(tags.body.models) |-> tags.body.models[i].name]
         /\ ~wellFormed => models = <<>>

\* C6: one call of summarize_text sends at most one POST to /api/generate;
\* once the request has been answered or has failed, the script run never
\* sends another.
C6_AtMostOnePost ==
    /\ posts <= 1
    /\ posts = 1 => pc \in {"Classifying", "Storing", "Display", "End"}

\* a script run has ended after its only generate request timed out
C6_Witness ==
    pc = "End" /\ posts = 1 /\ response.kind = "timeout" /\ errors = {TimedOut}

\* C7: a script run that called summarize_text ends either with a non-empty
\* summary stored and no failure reported, or with a failure reported and
\* nothing stored.
C7_DoneOrFailed ==
    (pc = "End" /\ posts > 0) =>
      \/ (StoredNow /\ Len(session["summary"]) > 0 /\ ~Failed)
      \/ (Failed /\ ~StoredNow)

\* C8 as stated: the text in the prompt, marker included, has at most 8000
\* characters.
C8_WithinBudget ==
    Prompted => Len(payload.prompt.text) <= max_chars

\* C8 as amended: the text in the prompt holds at most 8000 characters of the
\* document; with the 3-character marker it has at most 8003 characters.
C8_WithinBudgetPlusMarker ==
    Prompted =>
      LET P == payload.prompt.text
      IN /\ Len(P) <= max_chars + 3
         /\ Len(P) > max_chars =>
               /\ SubSeq(P, max_chars + 1, Len(P)) = <<".", ".", ".">>
               /\ SubSeq(P, 1, max_chars) = SubSeq(text.val, 1, max_chars)

\* a text more than 3 characters over the budget has been put in a prompt
C8_Witness ==
    /\ Prompted /\ Len(text.val) > max_chars + 3
    /\ Len(payload.prompt.text) = max_chars + 3

\* C9: summarize_text leaves the caller's text as extracted; the
\* original_text a script run stores is the full extracted text, and the
\* original word count shown is the word count of the untruncated text.
C9_CallerTextUnchanged ==
    /\ Prompted => text = Some(Extracted)
    /\ StoredNow =>
          /\ session["original_text"] = Extracted
          /\ stats.shown => stats.original_words = WordCount(Extracted)

\* statistics are shown for a text that was truncated in the prompt, and the
\* truncated copy has another word count than the text
C9_Witness ==
    /\ pc = "End" /\ StoredNow /\ stats.shown
    /\ Len(text.val) > max_chars
    /\ stats.original_words # WordCount(payload.prompt.text)

\* the session holds no pair, or a summary and an original_text written by
\* the same script run
PairWhole ==
    /\ DOMAIN session \in {{}, {"summary", "original_text"}}
    /\ DOMAIN writer = DOMAIN session
    /\ DOMAIN session # {} =>
          /\ writer["summary"] = writer["original_text"]
          /\ Len(session["summary"]) > 0

\* the session changes only when summarize_text has returned a non-empty
\* summary without a failure, and then to that summary and the caller's text
PairStep ==
    (session' # session \/ writer' # writer) =>
      /\ pc = "Storing" /\ Truthy(summary) /\ ~Failed
      /\ DOMAIN session' = {"summary", "original_text"}
      /\ session'["summary"] = summary.val
      /\ session'["original_text"] = text.val
      /\ writer' = [k \in DOMAIN session' |-> inv]

\* C10: the pair (summary, original_text) of the session is absent or written
\* as a whole by one script run, and changes only on a successful
\* summarization; a failing run, or one with an empty summary, leaves it.
C10_SessionPair == [](PairWhole) /\ [][PairStep]_vars

\* a second script run has failed and shows the summary and statistics of the
\* first
C10_Witness ==
    /\ pc = "End" /\ inv = 2 /\ posts = 1 /\ errors # {}
    /\ StoredNow = FALSE /\ "summary" \in DOMAIN writer /\ writer["summary"] = 1
    /\ stats.shown

====
